---- MODULE Spec2Model ----
(***************************************************************************)
(* FailureBoundary::catch_failure of neon-runtime (napi/no_panic.rs).      *)
(*                                                                         *)
(* One invocation of catch_failure is modelled as a stack machine: every   *)
(* Node-API call the Rust code makes is one step, the runtime answers each *)
(* call with a status chosen nondeterministically, and a status other than *)
(* Ok takes the fatal_error path of the helper that made the call.         *)
(***************************************************************************)
EXTENDS Integers, Sequences, FiniteSets, TLC

\* ---------------------------------------------------------------- bounds
\* the work closure returns one of the values 1..MaxValue
MaxValue == 2
\* the work closure throws one of the exception values 1..MaxThrown
MaxThrown == 2
\* the native threads 1..NumThreads send on the channel
NumThreads == 2
\* each native thread sends the closures 1..SendsPerThread, in this order
SendsPerThread == 2
\* the wrapped resources 1..NumResources
NumResources == 1
\* the channel handles 1..NumClones
NumClones == 2

\* ---------------------------------------------------------------- values
UNKNOWN_PANIC_MESSAGE == "Unknown panic"

\* Option<T>, with a placeholder of T's shape in `val` when absent
Some(v) == [some |-> TRUE, val |-> v]

\* raw::Local: a handle to a value of the runtime
Local(kind, n, s) == [kind |-> kind, n |-> n, s |-> s]
NoLocal == Local("none", 0, "")
NoneLocal == [some |-> FALSE, val |-> NoLocal]
NoneStr == [some |-> FALSE, val |-> ""]

\* type Panic = Box<dyn Any + Send>: the concrete type and what it carries
Payload(type, data) == [type |-> type, data |-> data]
NoPayload == Payload("none", "")
NonePanic == [some |-> FALSE, val |-> NoPayload]
Payloads == {Payload("&str", "boom"), Payload("String", "boom"),
             Payload("CustomPanic", "boom")}

\* Result<Local, Panic> of catch_unwind
Ok(v) == [ok |-> TRUE, val |-> v, err |-> NoPayload]
Err(p) == [ok |-> FALSE, val |-> NoLocal, err |-> p]
ResultErr(r) == IF r.ok THEN NonePanic ELSE Some(r.err)

\* raw::Env: null once the event loop has terminated
NullEnv == "null"
LiveEnv == "env"
NoneEnv == [some |-> FALSE, val |-> NullEnv]

\* napi::Status: Ok, or any of the failure statuses
Status == {"Ok", "GenericFailure"}

\* the three template messages of a FailureBoundary
FailureBoundary ==
    [both |-> "A panic and exception occurred",
     exception |-> "An exception occurred",
     panic |-> "A panic occurred"]

\* what the work closure F does when it is called: it returns a value or
\* unwinds with a payload, and it may leave an exception pending
Values == {Local("value", v, "") : v \in 1..MaxValue}
Thrown == {Local("exception", e, "") : e \in 1..MaxThrown}
Works == {[result |-> r, throws |-> t] :
            r \in {Ok(v) : v \in Values} \cup {Err(p) : p \in Payloads},
            t \in {NoneLocal} \cup {Some(e) : e \in Thrown}}

\* an activation of one of the helpers, with its arguments and locals
Frame(fn, at) ==
    [fn |-> fn, at |-> at, msg |-> "", object |-> NoLocal, value |-> NoLocal,
     exception |-> NoneLocal, panic |-> NonePanic]

\* ----------------------------------------------------------------- state
VARIABLES
    env,        \* argument: the Env, possibly null
    deferred,   \* argument: Option<napi::Deferred>
    f,          \* argument: the work closure
    napi3,      \* whether the crate is built with feature "napi-3"
    stack,      \* the activations, innermost first
    ret,        \* the value the last helper returned
    panic,      \* catch_failure's local: the result of catch_unwind
    exception,  \* catch_failure's local: the caught exception
    msg,        \* catch_failure's local: the chosen template
    pending,    \* the runtime: the pending exception
    heap,       \* the runtime: the error objects created, by index
    externals,  \* the runtime: the boxed payloads behind external handles
    calls,      \* the Node-API calls made so far, in order
    fCalls,     \* how many times the work closure was invoked
    fEnv,       \* the Option<Env> the work closure was invoked with
    done,       \* "running", "returned", "aborted" or "unwound"
    abortMsg,   \* the message given to fatal_error
    payloadDrops, \* how many times the panic payload was dropped
    collected,  \* the external handles the runtime has finalized
    loop,       \* the event loop of the runtime: "alive" or "exited"
    queue,      \* the task queue of the runtime, oldest first
    running,    \* the tasks executing on the runtime thread
    phase,      \* per task: unsent, queued, running, completed or discarded
    invocations, \* per task: the handle and loop state of each invocation
    results,    \* per task: the value its closure returned, 0 before that
    sent,       \* per native thread: how many closures it has sent
    joining,    \* per native thread: the closure whose join blocks it, or 0
    joined,     \* per task: the value join has yielded, -1 before it returns
    res,        \* per wrapped resource: where dropped, finalize runs
    chan        \* per channel handle: its life and its ref state

vars == <<env, deferred, f, napi3, stack, ret, panic, exception, msg, pending,
          heap, externals, calls, fCalls, fEnv, done, abortMsg,
          payloadDrops, collected, loop, queue, running, phase, invocations,
          results, sent, joining, joined, res, chan>>

args == <<env, deferred, f, napi3>>
locals == <<panic, exception, msg>>
runtime == <<pending, heap, externals>>
boxes == <<payloadDrops, collected>>
boundary == <<args, stack, ret, locals, runtime, calls, fCalls, fEnv, done,
              abortMsg, boxes>>
tasks == <<queue, running, phase, invocations, results>>
threads == <<sent, joining, joined>>
channel == <<loop, tasks, threads, res, chan>>

Top == stack[1]
At(fn, at) == done = "running" /\ stack # <<>> /\ Top.fn = fn /\ Top.at = at

\* ------------------------------------------------------- pure functions
\* (mutant) the null check is left out
EnvOption_unchecked(e) == Some(e)

\* let env = if env.is_null() { None } else { Some(env) };
EnvOption(e) == IF e = NullEnv THEN NoneEnv ELSE Some(e)

\* (mutant) only a &str payload is downcast
panic_msg_str_only(p) ==
    IF p.type = "&str" THEN Some(p.data) ELSE NoneStr

\* panic_msg: a message exactly for the payload types &str and String
panic_msg(p) ==
    IF p.type = "&str" THEN Some(p.data)
    ELSE IF p.type = "String" THEN Some(p.data)
    ELSE NoneStr

UnwrapOr(o, d) == IF o.some THEN o.val ELSE d

\* (mutant) the work is called without catch_unwind
catch_unwind_absent(r) == [unwinds |-> ~r.ok, result |-> r]

\* catch_unwind(AssertUnwindSafe(move || f(env))): a panic of the work does
\* not unwind any further, it becomes the Err of the result
catch_unwind(r) == [unwinds |-> FALSE, result |-> r]

\* (mutant) an exception is wrapped even when there is a Deferred
Classify_wrap(self, exc, pan, def) ==
    IF exc.some /\ ~pan.ok THEN [arm |-> "msg", msg |-> self.both]
    ELSE IF exc.some /\ pan.ok THEN [arm |-> "msg", msg |-> self.exception]
    ELSE IF ~exc.some /\ ~pan.ok THEN [arm |-> "msg", msg |-> self.panic]
    ELSE IF def.some THEN [arm |-> "resolve", msg |-> ""]
    ELSE [arm |-> "return", msg |-> ""]

\* (mutant) a panic is classified without looking at the exception
Classify_panic_first(self, exc, pan, def) ==
    IF ~pan.ok THEN [arm |-> "msg", msg |-> self.panic]
    ELSE IF exc.some
        THEN IF def.some THEN [arm |-> "reject", msg |-> ""]
             ELSE [arm |-> "msg", msg |-> self.exception]
    ELSE IF def.some THEN [arm |-> "resolve", msg |-> ""]
    ELSE [arm |-> "return", msg |-> ""]

\* (mutant) success returns without resolving the Deferred
Classify_no_resolve(self, exc, pan, def) ==
    IF exc.some /\ ~pan.ok THEN [arm |-> "msg", msg |-> self.both]
    ELSE IF exc.some /\ pan.ok
        THEN IF def.some THEN [arm |-> "reject", msg |-> ""]
             ELSE [arm |-> "msg", msg |-> self.exception]
    ELSE IF ~exc.some /\ ~pan.ok THEN [arm |-> "msg", msg |-> self.panic]
    ELSE [arm |-> "return", msg |-> ""]

\* the match on (exception, panic.as_ref()) of catch_failure
Classify(self, exc, pan, def) ==
    IF exc.some /\ ~pan.ok THEN [arm |-> "msg", msg |-> self.both]
    ELSE IF exc.some /\ pan.ok
        THEN IF def.some THEN [arm |-> "reject", msg |-> ""]
             ELSE [arm |-> "msg", msg |-> self.exception]
    ELSE IF ~exc.some /\ ~pan.ok THEN [arm |-> "msg", msg |-> self.panic]
    ELSE IF def.some THEN [arm |-> "resolve", msg |-> ""]
    ELSE [arm |-> "return", msg |-> ""]

\* (mutant) the return after the raw rejection is missing
AfterRawReject_fall_through == "settle"

\* where catch_failure continues after rejecting with the raw exception
AfterRawReject == "return"

\* (mutant) the capability is looked at before the Deferred
Fallback_abort_first(def, n3) ==
    IF ~n3 THEN "abort" ELSE IF def.some THEN "reject" ELSE "emit"

\* what is tried once a message is chosen: reject the Deferred, else abort
\* without feature napi-3, else emit an uncaughtException
Fallback(def, n3) ==
    IF def.some THEN "reject" ELSE IF ~n3 THEN "abort" ELSE "emit"

\* (mutant) the abort always carries the template
FatalMsg_template(pan, m) == m

\* the message of the abort without feature napi-3:
\* panic.as_ref().err().and_then(|panic| panic_msg(panic)).unwrap_or(msg)
FatalMsg(pan, m) ==
    UnwrapOr(IF ResultErr(pan).some THEN panic_msg(ResultErr(pan).val)
             ELSE NoneStr, m)

\* the message of the abort when there is no Env:
\* panic_msg(&panic).unwrap_or(UNKNOWN_PANIC_MESSAGE)
NullEnvFatalMsg(p) == UnwrapOr(panic_msg(p), UNKNOWN_PANIC_MESSAGE)

\* ------------------------------------------------------ control helpers
\* fatal_error(msg) -> !: the process aborts with the message
fatal_error(m) ==
    /\ done' = "aborted"
    /\ abortMsg' = m
    /\ stack' = <<>>

\* the Node-API call is recorded with the status the runtime gave
Call(op, object, key, value, status) ==
    calls' = Append(calls, [op |-> op, status |-> status, object |-> object,
                            key |-> key, value |-> value])

\* the innermost activation returns v to its caller
Return(v) ==
    /\ stack' = Tail(stack)
    /\ ret' = v
    /\ UNCHANGED <<done, abortMsg>>

\* the innermost activation moves on and calls a helper
Invoke(frames, at) ==
    /\ stack' = frames \o <<[Top EXCEPT !.at = at]>> \o Tail(stack)
    /\ UNCHANGED <<done, abortMsg>>

\* catch_failure returns to its caller
Finish ==
    /\ done' = "returned"
    /\ stack' = <<>>
    /\ UNCHANGED abortMsg

\* the activations a call of each helper starts with
catch_exception_entry ==
    <<Frame("is_exception_pending", "call"), Frame("catch_exception", "probed")>>

create_string_entry(m) == <<[Frame("create_string", "call") EXCEPT !.msg = m]>>

error_from_message_entry(m) ==
    create_string_entry(m) \o <<Frame("error_from_message", "string")>>

set_property_entry(object, key, value) ==
    create_string_entry(key) \o
    <<[Frame("set_property", "key") EXCEPT !.object = object, !.value = value]>>

create_error_entry(m, exc, pan) ==
    error_from_message_entry(m) \o
    <<[Frame("create_error", "error") EXCEPT !.exception = exc, !.panic = pan]>>

resolve_deferred_entry(value) ==
    <<[Frame("resolve_deferred", "call") EXCEPT !.value = value]>>

reject_deferred_entry(value) ==
    <<[Frame("reject_deferred", "call") EXCEPT !.value = value]>>

\* the innermost activation moves on as `top` and calls a helper
InvokeWith(frames, top) ==
    /\ stack' = frames \o <<top>> \o Tail(stack)
    /\ UNCHANGED <<done, abortMsg>>

\* ------------------------------------------------------- catch_exception
\* lines 270-278: napi::is_exception_pending(env, &mut throwing)
is_exception_pending ==
    /\ At("is_exception_pending", "call")
    /\ \E status \in Status :
         /\ Call("is_exception_pending", NoLocal, NoLocal, NoLocal, status)
         /\ IF status # "Ok"
              THEN fatal_error("Failed to check if an exception is pending") /\ ret' = ret
              ELSE Return([some |-> pending.some, val |-> NoLocal])
    /\ UNCHANGED <<channel, boxes, args, locals, runtime, fCalls, fEnv>>

\* (mutant) the exception is read but stays pending
catch_exception_no_clear ==
    /\ At("catch_exception", "probed")
    /\ IF ~ret.some
         THEN /\ Return(NoneLocal)
              /\ UNCHANGED <<calls, pending>>
         ELSE \E status \in Status :
                /\ Call("get_and_clear_last_exception", NoLocal, NoLocal, NoLocal, status)
                /\ IF status # "Ok"
                     THEN /\ fatal_error("Failed to get and clear the last exception")
                          /\ UNCHANGED <<ret, pending>>
                     ELSE /\ Return(Some(pending.val))
                          /\ pending' = pending
    /\ UNCHANGED <<channel, boxes, args, locals, heap, externals, fCalls, fEnv>>

\* lines 173-183: None unless throwing, else get_and_clear_last_exception
catch_exception ==
    /\ At("catch_exception", "probed")
    /\ IF ~ret.some
         THEN /\ Return(NoneLocal)
              /\ UNCHANGED <<calls, pending>>
         ELSE \E status \in Status :
                /\ Call("get_and_clear_last_exception", NoLocal, NoLocal, NoLocal, status)
                /\ IF status # "Ok"
                     THEN /\ fatal_error("Failed to get and clear the last exception")
                          /\ UNCHANGED <<ret, pending>>
                     ELSE /\ Return(Some(pending.val))
                          /\ pending' = NoneLocal
    /\ UNCHANGED <<channel, boxes, args, locals, heap, externals, fCalls, fEnv>>

\* ------------------------------------------------------ error construction
\* lines 258-268: napi::create_string_utf8
create_string ==
    /\ At("create_string", "call")
    /\ \E status \in Status :
         /\ Call("create_string_utf8", NoLocal, NoLocal, Local("string", 0, Top.msg), status)
         /\ IF status # "Ok"
              THEN fatal_error("Failed to create a String") /\ ret' = ret
              ELSE Return(Some(Local("string", 0, Top.msg)))
    /\ UNCHANGED <<channel, boxes, args, locals, runtime, fCalls, fEnv>>

\* lines 186-200: napi::create_error(env, null, msg, &mut err)
error_from_message ==
    /\ At("error_from_message", "string")
    /\ \E status \in Status :
         /\ Call("create_error", NoLocal, NoLocal, ret.val, status)
         /\ IF status # "Ok"
              THEN /\ fatal_error("Failed to create an Error")
                   /\ UNCHANGED <<ret, heap>>
              ELSE /\ heap' = Append(heap, [message |-> ret.val.s,
                                            props |-> [cause |-> NoneLocal,
                                                       panic |-> NoneLocal]])
                   /\ Return(Some(Local("error", Len(heap) + 1, "")))
    /\ UNCHANGED <<channel, boxes, args, locals, pending, externals, fCalls, fEnv>>

\* lines 216-222: napi::set_property(env, object, key, value)
set_property ==
    /\ At("set_property", "key")
    /\ \E status \in Status :
         /\ Call("set_property", Top.object, ret.val, Top.value, status)
         /\ IF status # "Ok"
              THEN /\ fatal_error("Failed to set an object property")
                   /\ UNCHANGED <<ret, heap>>
              ELSE /\ heap' = [heap EXCEPT ![Top.object.n].props[ret.val.s] =
                                             Some(Top.value)]
                   /\ Return(NoneLocal)
    /\ UNCHANGED <<channel, boxes, args, locals, pending, externals, fCalls, fEnv>>

\* (mutant) the status of create_external is not looked at
external_from_panic_unchecked ==
    /\ At("external_from_panic", "call")
    /\ \E status \in Status :
         /\ Call("create_external", NoLocal, NoLocal, NoLocal, status)
         /\ externals' = Append(externals, Top.panic.val)
         /\ Return(Some(Local("external", Len(externals) + 1, "")))
    /\ UNCHANGED <<channel, boxes, args, locals, pending, heap, fCalls, fEnv>>

\* lines 235-250: napi::create_external with the boxed panic and finalize_panic
external_from_panic ==
    /\ At("external_from_panic", "call")
    /\ \E status \in Status :
         /\ Call("create_external", NoLocal, NoLocal, NoLocal, status)
         /\ IF status # "Ok"
              THEN /\ fatal_error("Failed to create a neon::types::JsBox from a panic")
                   /\ UNCHANGED <<ret, externals>>
              ELSE /\ externals' = Append(externals, Top.panic.val)
                   /\ Return(Some(Local("external", Len(externals) + 1, "")))
    /\ UNCHANGED <<channel, boxes, args, locals, pending, heap, fCalls, fEnv>>

external_from_panic_entry(p) ==
    <<[Frame("external_from_panic", "call") EXCEPT !.panic = Some(p)]>>

\* lines 203-207: error_from_panic starts by creating an error from the
\* panic's message, or from UNKNOWN_PANIC_MESSAGE when it has none
error_from_panic_entry(p) ==
    IF panic_msg(p).some
      THEN error_from_message_entry(panic_msg(p).val) \o
           <<Frame("error_from_panic", "message")>>
      ELSE error_from_message_entry(UNKNOWN_PANIC_MESSAGE) \o
           <<[Frame("error_from_panic", "unknown") EXCEPT !.panic = Some(p)]>>

\* lines 205 and 213: the error made from the panic's message is the result,
\* and the panic, which error_from_panic owns, is dropped
error_from_panic_message ==
    /\ At("error_from_panic", "message")
    /\ Return(ret)
    /\ payloadDrops' = payloadDrops + 1
    /\ UNCHANGED <<channel, collected, args, locals, runtime, calls, fCalls, fEnv>>

\* lines 207-208: box the payload behind an external
error_from_panic_unknown ==
    /\ At("error_from_panic", "unknown")
    /\ InvokeWith(external_from_panic_entry(Top.panic.val),
                  [Top EXCEPT !.at = "external", !.object = ret.val])
    /\ UNCHANGED <<channel, boxes, args, ret, locals, runtime, calls, fCalls, fEnv>>

\* line 210: set_property(env, error, "cause", panic)
error_from_panic_external ==
    /\ At("error_from_panic", "external")
    /\ Invoke(set_property_entry(Top.object, "cause", ret.val), "done")
    /\ UNCHANGED <<channel, boxes, args, ret, locals, runtime, calls, fCalls, fEnv>>

\* line 211: error
error_from_panic_done ==
    /\ At("error_from_panic", "done")
    /\ Return(Some(Top.object))
    /\ UNCHANGED <<channel, boxes, args, locals, runtime, calls, fCalls, fEnv>>

\* (mutant) the exception is not attached to the error
create_error_no_cause ==
    /\ At("create_error", "error")
    /\ InvokeWith(<<>>, [Top EXCEPT !.at = "panic", !.object = ret.val])
    /\ UNCHANGED <<channel, boxes, args, ret, locals, runtime, calls, fCalls, fEnv>>

\* lines 142-147: the error object, and its cause when there is an exception
create_error ==
    /\ At("create_error", "error")
    /\ InvokeWith(IF Top.exception.some
                    THEN set_property_entry(ret.val, "cause", Top.exception.val)
                    ELSE <<>>,
                  [Top EXCEPT !.at = "panic", !.object = ret.val])
    /\ UNCHANGED <<channel, boxes, args, ret, locals, runtime, calls, fCalls, fEnv>>

\* lines 150-154: the error of the panic when there is one, else the result
create_error_panic ==
    /\ At("create_error", "panic")
    /\ IF Top.panic.some
         THEN Invoke(error_from_panic_entry(Top.panic.val), "panic_error") /\ ret' = ret
         ELSE Return(Some(Top.object))
    /\ UNCHANGED <<channel, boxes, args, locals, runtime, calls, fCalls, fEnv>>

\* line 151: set_property(env, error, "panic", ..)
create_error_panic_error ==
    /\ At("create_error", "panic_error")
    /\ Invoke(set_property_entry(Top.object, "panic", ret.val), "done")
    /\ UNCHANGED <<channel, boxes, args, ret, locals, runtime, calls, fCalls, fEnv>>

\* line 154: error
create_error_done ==
    /\ At("create_error", "done")
    /\ Return(Some(Top.object))
    /\ UNCHANGED <<channel, boxes, args, locals, runtime, calls, fCalls, fEnv>>

\* ------------------------------------------------------------ settlement
\* lines 157-162: napi::resolve_deferred(env, deferred, value)
resolve_deferred ==
    /\ At("resolve_deferred", "call")
    /\ \E status \in Status :
         /\ Call("resolve_deferred", NoLocal, NoLocal, Top.value, status)
         /\ IF status # "Ok"
              THEN fatal_error("Failed to resolve promise") /\ ret' = ret
              ELSE Return(NoneLocal)
    /\ UNCHANGED <<channel, boxes, args, locals, runtime, fCalls, fEnv>>

\* (mutant) the status of reject_deferred is not looked at
reject_deferred_unchecked ==
    /\ At("reject_deferred", "call")
    /\ \E status \in Status :
         /\ Call("reject_deferred", NoLocal, NoLocal, Top.value, status)
         /\ Return(NoneLocal)
    /\ UNCHANGED <<channel, boxes, args, locals, runtime, fCalls, fEnv>>

\* lines 164-169: napi::reject_deferred(env, deferred, value)
reject_deferred ==
    /\ At("reject_deferred", "call")
    /\ \E status \in Status :
         /\ Call("reject_deferred", NoLocal, NoLocal, Top.value, status)
         /\ IF status # "Ok"
              THEN fatal_error("Failed to reject promise") /\ ret' = ret
              ELSE Return(NoneLocal)
    /\ UNCHANGED <<channel, boxes, args, locals, runtime, fCalls, fEnv>>


\* =================================================================== Channel
\* The channel, the task queue of the runtime and the global drop queue,
\* after sections 4.3, 4.4 and 5 of the specification.

Threads == 1..NumThreads
Resources == 1..NumResources
Clones == 1..NumClones

\* a task of the runtime: a closure sent by a native thread, or the
\* finalize-thunk of a wrapped resource
Closure(t, k) == [kind |-> "closure", owner |-> t, seq |-> k]
Finalizer(r) == [kind |-> "finalize", owner |-> r, seq |-> 0]
Closures == {Closure(t, k) : t \in Threads, k \in 1..SendsPerThread}
Finalizers == {Finalizer(r) : r \in Resources}
Tasks == Closures \cup Finalizers

\* the value a closure returns
ClosureValue(task) == 10 * task.owner + task.seq

\* the Env the runtime gives a task: null once the event loop has exited
RuntimeEnv == IF loop = "alive" THEN LiveEnv ELSE NullEnv

\* the tasks of the queue
Queued == {queue[i] : i \in DOMAIN queue}
PositionOf(task) == CHOOSE i \in DOMAIN queue : queue[i] = task

\* a handle that has not been dropped is outstanding, leaked or not
Outstanding(c) == chan[c].life \in {"held", "leaked"}

\* no channel state of the catch_failure machine is in use
ChannelIdle ==
    /\ loop = "alive"
    /\ queue = <<>>
    /\ running = {}
    /\ phase = [task \in Tasks |-> "unsent"]
    /\ invocations = [task \in Tasks |-> <<>>]
    /\ results = [task \in Tasks |-> 0]
    /\ sent = [t \in Threads |-> 0]
    /\ joining = [t \in Threads |-> 0]
    /\ joined = [task \in Closures |-> -1]
    /\ res = [r \in Resources |-> [dropped |-> "no", finalized |-> 0, on |-> {}]]
    /\ chan = [c \in Clones |-> [life |-> "held", state |-> "ref"]]

\* no catch_failure invocation is in progress
BoundaryIdle ==
    /\ env = LiveEnv
    /\ deferred = [some |-> FALSE, val |-> ""]
    /\ f = [result |-> Ok(Local("value", 1, "")), throws |-> NoneLocal]
    /\ napi3 = TRUE
    /\ stack = <<>>
    /\ ret = NoneLocal
    /\ panic = Ok(NoLocal)
    /\ exception = NoneLocal
    /\ msg = ""
    /\ pending = NoneLocal
    /\ heap = <<>>
    /\ externals = <<>>
    /\ calls = <<>>
    /\ fCalls = 0
    /\ fEnv = NoneEnv
    /\ done = "returned"
    /\ abortMsg = ""
    /\ payloadDrops = 0
    /\ collected = {}

\* the handles of cx.channel() are all in one ref state when the threads start
InitChannel ==
    /\ BoundaryIdle
    /\ loop = "alive"
    /\ queue = <<>>
    /\ running = {}
    /\ phase = [task \in Tasks |-> "unsent"]
    /\ invocations = [task \in Tasks |-> <<>>]
    /\ results = [task \in Tasks |-> 0]
    /\ sent = [t \in Threads |-> 0]
    /\ joining = [t \in Threads |-> 0]
    /\ joined = [task \in Closures |-> -1]
    /\ res = [r \in Resources |-> [dropped |-> "no", finalized |-> 0, on |-> {}]]
    /\ \E st \in {"ref", "unref"} :
         chan = [c \in Clones |-> [life |-> "held", state |-> st]]

\* (mutant) the task is put at the front of the task queue
Enqueue_front(task) ==
    IF loop = "alive"
      THEN /\ queue' = <<task>> \o queue
           /\ phase' = [phase EXCEPT ![task] = "queued"]
      ELSE /\ queue' = queue
           /\ phase' = [phase EXCEPT ![task] = "discarded"]

\* the task is put at the end of the task queue, or, when the runtime is
\* gone, dropped without being run
Enqueue(task) ==
    IF loop = "alive"
      THEN /\ queue' = Append(queue, task)
           /\ phase' = [phase EXCEPT ![task] = "queued"]
      ELSE /\ queue' = queue
           /\ phase' = [phase EXCEPT ![task] = "discarded"]

\* Channel::send, alone or followed by join: native thread t sends its next
\* closure; send always returns a handle
Send(t, join) ==
    /\ joining[t] = 0
    /\ sent[t] < SendsPerThread
    /\ Enqueue(Closure(t, sent[t] + 1))
    /\ sent' = [sent EXCEPT ![t] = sent[t] + 1]
    /\ joining' = [joining EXCEPT ![t] = IF join THEN sent[t] + 1 ELSE 0]
    /\ UNCHANGED <<boundary, loop, running, invocations, results, joined, res, chan>>

\* (mutant) join returns without waiting for the closure
JoinReturn_early(t) ==
    /\ joining[t] # 0
    /\ joined' = [joined EXCEPT ![Closure(t, joining[t])] =
                                  results[Closure(t, joining[t])]]
    /\ joining' = [joining EXCEPT ![t] = 0]
    /\ UNCHANGED <<boundary, loop, tasks, sent, res, chan>>

\* join returns: the closure has run to completion and join yields its result
JoinReturn(t) ==
    /\ joining[t] # 0
    /\ phase[Closure(t, joining[t])] = "completed"
    /\ joined' = [joined EXCEPT ![Closure(t, joining[t])] =
                                  results[Closure(t, joining[t])]]
    /\ joining' = [joining EXCEPT ![t] = 0]
    /\ UNCHANGED <<boundary, loop, tasks, sent, res, chan>>

\* (mutant) a task is taken while another is still executing
Dequeue_reentrant ==
    /\ loop = "alive"
    /\ queue # <<>>
    /\ running' = running \cup {Head(queue)}
    /\ queue' = Tail(queue)
    /\ phase' = [phase EXCEPT ![Head(queue)] = "running"]
    /\ invocations' = [invocations EXCEPT ![Head(queue)] =
                         Append(@, [handle |-> EnvOption(RuntimeEnv), loop |-> loop])]
    /\ UNCHANGED <<boundary, loop, results, threads, res, chan>>

\* the runtime thread is idle and takes the oldest task of the queue; the
\* task is invoked with the Env of the live runtime
Dequeue ==
    /\ loop = "alive"
    /\ running = {}
    /\ queue # <<>>
    /\ running' = {Head(queue)}
    /\ queue' = Tail(queue)
    /\ phase' = [phase EXCEPT ![Head(queue)] = "running"]
    /\ invocations' = [invocations EXCEPT ![Head(queue)] =
                         Append(@, [handle |-> EnvOption(RuntimeEnv), loop |-> loop])]
    /\ UNCHANGED <<boundary, loop, results, threads, res, chan>>

\* the task on the runtime thread returns: a closure has produced its result,
\* a finalize-thunk has run the finalize logic of its resource
Complete ==
    /\ \E task \in running :
         /\ running' = running \ {task}
         /\ phase' = [phase EXCEPT ![task] = "completed"]
         /\ results' = [results EXCEPT ![task] = ClosureValue(task)]
         /\ res' = IF task.kind = "finalize"
                     THEN [res EXCEPT ![task.owner].finalized = @ + 1,
                                      ![task.owner].on = @ \cup {"runtime"}]
                     ELSE res
    /\ UNCHANGED <<boundary, loop, queue, invocations, threads, chan>>

\* (mutant) a leaked handle is not counted
LoopExit_ignores_leaked ==
    /\ loop = "alive"
    /\ running = {}
    /\ \A c \in Clones : chan[c].life = "held" => chan[c].state = "unref"
    /\ loop' = "exited"
    /\ UNCHANGED <<boundary, tasks, threads, res, chan>>

\* the event loop exits: the runtime thread is idle and no outstanding
\* channel handle is in the ref state
LoopExit ==
    /\ loop = "alive"
    /\ running = {}
    /\ \A c \in Clones : Outstanding(c) => chan[c].state = "unref"
    /\ loop' = "exited"
    /\ UNCHANGED <<boundary, tasks, threads, res, chan>>

\* teardown: a task still queued when the runtime is gone is handed the null
\* Env, so its closure gets no handle and is dropped without running
Discard ==
    /\ loop = "exited"
    /\ queue # <<>>
    /\ queue' = Tail(queue)
    /\ phase' = [phase EXCEPT ![Head(queue)] = "discarded"]
    /\ invocations' = [invocations EXCEPT ![Head(queue)] =
                         Append(@, [handle |-> EnvOption(RuntimeEnv), loop |-> loop])]
    /\ UNCHANGED <<boundary, loop, running, results, threads, res, chan>>

\* a wrapped resource is dropped on the runtime thread: its finalize logic
\* runs inline
DropOnRuntime(r) ==
    /\ loop = "alive"
    /\ running = {}
    /\ res[r].dropped = "no"
    /\ res' = [res EXCEPT ![r] = [dropped |-> "runtime", finalized |-> @.finalized + 1,
                                  on |-> @.on \cup {"runtime"}]]
    /\ UNCHANGED <<boundary, loop, tasks, threads, chan>>

\* (mutant) the finalize logic runs inline on the native thread
DropOnThread_inline(r) ==
    /\ res[r].dropped = "no"
    /\ res' = [res EXCEPT ![r] = [dropped |-> "foreign", finalized |-> @.finalized + 1,
                                  on |-> @.on \cup {"foreign"}]]
    /\ UNCHANGED <<boundary, loop, tasks, threads, chan>>

\* a wrapped resource is dropped on a native thread: its finalize-thunk goes
\* to the global drop queue, which hands it to the runtime thread
DropOnThread(r) ==
    /\ res[r].dropped = "no"
    /\ res' = [res EXCEPT ![r].dropped = "foreign"]
    /\ Enqueue(Finalizer(r))
    /\ UNCHANGED <<boundary, loop, running, invocations, results, threads, chan>>

\* Channel::unref and Channel::reference, on the runtime thread
Unref(c) ==
    /\ loop = "alive"
    /\ running = {}
    /\ chan[c].life = "held"
    /\ chan[c].state = "ref"
    /\ chan' = [chan EXCEPT ![c].state = "unref"]
    /\ UNCHANGED <<boundary, loop, tasks, threads, res>>

Reference(c) ==
    /\ loop = "alive"
    /\ running = {}
    /\ chan[c].life = "held"
    /\ chan[c].state = "unref"
    /\ chan' = [chan EXCEPT ![c].state = "ref"]
    /\ UNCHANGED <<boundary, loop, tasks, threads, res>>

\* a channel handle is dropped, or leaked and so never dropped
DropChannel(c) ==
    /\ chan[c].life = "held"
    /\ chan' = [chan EXCEPT ![c].life = "dropped"]
    /\ UNCHANGED <<boundary, loop, tasks, threads, res>>

LeakChannel(c) ==
    /\ chan[c].life = "held"
    /\ chan' = [chan EXCEPT ![c].life = "leaked"]
    /\ UNCHANGED <<boundary, loop, tasks, threads, res>>

\* ------------------------------------------------------------------ Init
Init ==
    /\ env \in {NullEnv, LiveEnv}
    /\ deferred \in {[some |-> FALSE, val |-> ""], Some("deferred")}
    /\ f \in Works
    \* a closure given no Env cannot throw
    /\ env = NullEnv => ~f.throws.some
    /\ napi3 \in BOOLEAN
    /\ stack = <<Frame("catch_failure", "entry")>>
    /\ ret = NoneLocal
    /\ panic = Ok(NoLocal)
    /\ exception = NoneLocal
    /\ msg = ""
    /\ pending = NoneLocal
    /\ heap = <<>>
    /\ externals = <<>>
    /\ calls = <<>>
    /\ fCalls = 0
    /\ fEnv = NoneEnv
    /\ done = "running"
    /\ abortMsg = ""
    /\ payloadDrops = 0
    /\ collected = {}
    /\ ChannelIdle

\* --------------------------------------------------------- catch_failure
\* lines 46-68: run the work, and without an Env abort or return
catch_failure ==
    /\ At("catch_failure", "entry")
    /\ fCalls' = fCalls + 1
    /\ fEnv' = EnvOption(env)
    /\ panic' = catch_unwind(f.result).result
    /\ pending' = IF EnvOption(env).some THEN f.throws ELSE pending
    /\ IF catch_unwind(f.result).unwinds
         THEN /\ done' = "unwound"
              /\ stack' = <<>>
              /\ UNCHANGED abortMsg
         ELSE IF ~EnvOption(env).some
                THEN IF ~f.result.ok
                       THEN fatal_error(NullEnvFatalMsg(f.result.err))
                       ELSE Finish
                ELSE Invoke(catch_exception_entry, "classify")
    /\ UNCHANGED <<channel, boxes, args, ret, exception, msg, heap, externals, calls>>

\* lines 68-98: the match on the exception and the panic
catch_failure_classify ==
    /\ At("catch_failure", "classify")
    /\ exception' = ret
    /\ LET c == Classify(FailureBoundary, ret, panic, deferred) IN
         CASE c.arm = "reject" ->
                /\ Invoke(reject_deferred_entry(ret.val), AfterRawReject)
                /\ msg' = msg
           [] c.arm = "resolve" ->
                /\ Invoke(resolve_deferred_entry(panic.val), "return")
                /\ msg' = msg
           [] c.arm = "return" ->
                /\ Finish
                /\ msg' = msg
           [] c.arm = "msg" ->
                /\ Invoke(<<>>, "settle")
                /\ msg' = c.msg
    /\ UNCHANGED <<channel, boxes, args, ret, panic, runtime, calls, fCalls, fEnv>>

\* lines 100-124: reject with a constructed error, abort, or go on to emit
catch_failure_settle ==
    /\ At("catch_failure", "settle")
    /\ CASE Fallback(deferred, napi3) = "reject" ->
                Invoke(create_error_entry(msg, exception, ResultErr(panic)), "reject")
           [] Fallback(deferred, napi3) = "abort" ->
                fatal_error(FatalMsg(panic, msg))
           [] Fallback(deferred, napi3) = "emit" ->
                Invoke(create_error_entry(msg, exception, ResultErr(panic)), "emit")
    /\ UNCHANGED <<channel, boxes, args, ret, locals, runtime, calls, fCalls, fEnv>>

\* lines 104-106: reject_deferred(env, deferred, error); return
catch_failure_reject ==
    /\ At("catch_failure", "reject")
    /\ Invoke(reject_deferred_entry(ret.val), "return")
    /\ UNCHANGED <<channel, boxes, args, ret, locals, runtime, calls, fCalls, fEnv>>

\* (mutant) the status of fatal_exception is not looked at
catch_failure_emit_unchecked ==
    /\ At("catch_failure", "emit")
    /\ \E status \in Status :
         /\ Call("fatal_exception", NoLocal, NoLocal, ret.val, status)
         /\ Finish
    /\ UNCHANGED <<channel, boxes, args, ret, locals, runtime, fCalls, fEnv>>

\* lines 127-129: napi::fatal_exception(env, error)
catch_failure_emit ==
    /\ At("catch_failure", "emit")
    /\ \E status \in Status :
         /\ Call("fatal_exception", NoLocal, NoLocal, ret.val, status)
         /\ IF status # "Ok"
              THEN fatal_error("Failed to throw an uncaughtException")
              ELSE Finish
    /\ UNCHANGED <<channel, boxes, args, ret, locals, runtime, fCalls, fEnv>>

\* the return statements after a settlement
catch_failure_return ==
    /\ At("catch_failure", "return")
    /\ Finish
    /\ UNCHANGED <<channel, boxes, args, ret, locals, runtime, calls, fCalls, fEnv>>

\* -------------------------------------------------------- finalize_panic
\* lines 252-256: once catch_failure has returned, the runtime may collect an
\* external handle; it then calls the finalizer, once, and Box::from_raw
\* drops the boxed payload
finalize_panic ==
    /\ done = "returned"
    /\ \E i \in DOMAIN externals \ collected :
         /\ collected' = collected \cup {i}
         /\ payloadDrops' = payloadDrops + 1
    /\ UNCHANGED <<channel, args, stack, ret, locals, runtime, calls, fCalls,
                   fEnv, done, abortMsg>>

\* ---------------------------------------------------------- observations
Terminal == done # "running"
Aborted == done = "aborted"
Panicked == ~f.result.ok
Threw == f.throws.some
StringPayload == Panicked /\ f.result.err.type \in {"&str", "String"}

CallsOf(op) == {i \in DOMAIN calls : calls[i].op = op}
OkCallsOf(op) == {i \in CallsOf(op) : calls[i].status = "Ok"}
FailedCalls == {i \in DOMAIN calls : calls[i].status # "Ok"}

Resolved == OkCallsOf("resolve_deferred") # {}
Rejected == OkCallsOf("reject_deferred") # {}
Emitted == OkCallsOf("fatal_exception") # {}

\* the terminal outcomes that have happened
Outcomes ==
    {o \in {"resolve", "reject", "emit", "abort"} :
        \/ o = "resolve" /\ Resolved
        \/ o = "reject" /\ Rejected
        \/ o = "emit" /\ Emitted
        \/ o = "abort" /\ Aborted}

\* the template that the presence of an exception and of a panic selects
Template ==
    IF Threw /\ Panicked THEN FailureBoundary.both
    ELSE IF Panicked THEN FailureBoundary.panic
    ELSE FailureBoundary.exception

\* the fixed diagnostic of each runtime operation
Diagnostic(op) ==
    CASE op = "is_exception_pending" -> "Failed to check if an exception is pending"
      [] op = "get_and_clear_last_exception" -> "Failed to get and clear the last exception"
      [] op = "create_string_utf8" -> "Failed to create a String"
      [] op = "create_error" -> "Failed to create an Error"
      [] op = "set_property" -> "Failed to set an object property"
      [] op = "create_external" -> "Failed to create a neon::types::JsBox from a panic"
      [] op = "resolve_deferred" -> "Failed to resolve promise"
      [] op = "reject_deferred" -> "Failed to reject promise"
      [] op = "fatal_exception" -> "Failed to throw an uncaughtException"

\* v is an error object made in this invocation, with message m
ConstructedError(v, m) ==
    /\ v.kind = "error"
    /\ v.n \in DOMAIN heap
    /\ heap[v.n].message = m

\* -------------------------------------------------------------------- C1
\* C1 as stated: every invocation of catch_failure ends in exactly one of
\* resolve, reject, emit-uncaught and abort.
C1_ExactlyOneOutcome ==
    Terminal => Cardinality(Outcomes) = 1

\* C1, amended: no invocation has more than one of the four outcomes, and it
\* ends with none exactly when the work returned without panicking and either
\* env was null, or no Deferred was supplied, no exception was pending and the
\* probe for one did not fail.
C1_AtMostOneOutcome ==
    /\ Cardinality(Outcomes) <= 1
    /\ Terminal =>
         (Cardinality(Outcomes) = 0 <=>
            /\ ~Panicked
            /\ \/ env = NullEnv
               \/ ~deferred.some /\ ~Threw /\ FailedCalls = {})

C1_Witness ==
    /\ done = "returned" /\ env = LiveEnv /\ deferred.some
    /\ Panicked /\ Threw /\ Outcomes = {"reject"}

\* -------------------------------------------------------------------- C2
\* C2: on a Deferred given to catch_failure, resolve_deferred and
\* reject_deferred are called at most once in total, whatever the work did
\* and whatever the runtime answered.
C2_SettledAtMostOnce ==
    Cardinality(CallsOf("resolve_deferred") \cup CallsOf("reject_deferred")) <= 1

C2_Witness ==
    /\ done = "returned" /\ deferred.some /\ ~Panicked /\ Threw
    /\ Cardinality(CallsOf("reject_deferred")) = 1

\* -------------------------------------------------------------------- C3
\* C3: with a live env, a Deferred, work that returned and an exception
\* pending, the only runtime calls are the probe and one reject_deferred, whose
\* value is the exception the work threw: no string, error object, property,
\* external or uncaught exception; catch_failure returns only after the
\* rejection succeeded, and aborts only on a failed call.
C3_Case == env = LiveEnv /\ deferred.some /\ ~Panicked /\ Threw

C3_RejectsWithRawException ==
    C3_Case =>
      /\ \A i \in DOMAIN calls :
           calls[i].op \in {"is_exception_pending", "get_and_clear_last_exception",
                            "reject_deferred"}
      /\ \A i \in CallsOf("reject_deferred") : calls[i].value = f.throws.val
      /\ heap = <<>>
      /\ done = "returned" => Cardinality(OkCallsOf("reject_deferred")) = 1
      /\ Aborted => FailedCalls # {}

C3_Witness ==
    /\ C3_Case /\ done = "returned"
    /\ \E i \in OkCallsOf("reject_deferred") : calls[i].value = f.throws.val

\* -------------------------------------------------------------------- C4
\* C4: with a live env, a Deferred and work that panicked, every rejection
\* carries an error object made in this invocation whose message is the
\* `both` template when an exception was pending and the `panic` template
\* otherwise; the `exception` template is never made into a string, the
\* Deferred is never resolved, and catch_failure returns only after the
\* rejection succeeded.
C4_Case == env = LiveEnv /\ deferred.some /\ Panicked

C4_RejectsWithConstructedError ==
    C4_Case =>
      /\ \A i \in CallsOf("reject_deferred") :
           /\ ConstructedError(calls[i].value,
                               IF Threw THEN FailureBoundary.both
                               ELSE FailureBoundary.panic)
           /\ calls[i].value # f.throws.val
      /\ \A i \in CallsOf("create_string_utf8") :
           calls[i].value.s # FailureBoundary.exception
      /\ CallsOf("resolve_deferred") = {}
      /\ done = "returned" => Cardinality(OkCallsOf("reject_deferred")) = 1
      /\ Aborted => FailedCalls # {}

C4_Witness ==
    /\ C4_Case /\ Threw /\ done = "returned"
    /\ \E i \in OkCallsOf("reject_deferred") :
         ConstructedError(calls[i].value, FailureBoundary.both)

\* -------------------------------------------------------------------- C5
\* C5: with a live env, a Deferred, work that returned a value and no
\* exception pending, the only runtime calls are the probe and one
\* resolve_deferred whose value is the value the work returned; the Deferred
\* is never rejected, and catch_failure returns only after the resolution
\* succeeded.
C5_Case == env = LiveEnv /\ deferred.some /\ ~Panicked /\ ~Threw

C5_ResolvesWithValue ==
    C5_Case =>
      /\ \A i \in DOMAIN calls :
           calls[i].op \in {"is_exception_pending", "resolve_deferred"}
      /\ \A i \in CallsOf("resolve_deferred") : calls[i].value = f.result.val
      /\ done = "returned" => Cardinality(OkCallsOf("resolve_deferred")) = 1
      /\ Aborted => FailedCalls # {}

C5_Witness ==
    /\ C5_Case /\ done = "returned"
    /\ \E i \in OkCallsOf("resolve_deferred") : calls[i].value = f.result.val

\* -------------------------------------------------------------------- C6
\* C6 as stated: with a live env, no Deferred and no feature napi-3, once the
\* probe has succeeded every panic or exception outcome aborts, with the
\* panic's own message when the work panicked and with the `exception`
\* template otherwise.
C6_Case == env = LiveEnv /\ ~deferred.some /\ ~napi3 /\ (Panicked \/ Threw)

C6_AbortsWithPanicMessage ==
    C6_Case /\ Terminal /\ FailedCalls = {} =>
      /\ Aborted
      /\ IF Panicked
           THEN StringPayload /\ abortMsg = f.result.err.data
           ELSE abortMsg = FailureBoundary.exception

\* C6, amended: in that case every panic or exception outcome aborts; the
\* diagnostic is the panic's own message when the work panicked with a &str
\* or String payload, and otherwise the template chosen by classification
\* (`exception`, or `panic` or `both` for a payload of another type); if the
\* probe itself fails the diagnostic is the probe's. Nothing is constructed,
\* settled or emitted.
C6_AbortsWithMessageOrTemplate ==
    C6_Case =>
      /\ \A i \in DOMAIN calls :
           calls[i].op \in {"is_exception_pending", "get_and_clear_last_exception"}
      /\ Terminal =>
           /\ Aborted
           /\ FailedCalls = {} =>
                abortMsg = IF StringPayload THEN f.result.err.data ELSE Template
           /\ \A i \in FailedCalls : abortMsg = Diagnostic(calls[i].op)

C6_Witness ==
    /\ C6_Case /\ Aborted /\ FailedCalls = {}
    /\ Panicked /\ ~StringPayload /\ abortMsg = FailureBoundary.panic

\* -------------------------------------------------------------------- C7
\* C7: with a live env, no Deferred and feature napi-3, every panic or
\* exception outcome whose error object could be constructed makes exactly one
\* fatal_exception call, with the constructed error; the process aborts with
\* "Failed to throw an uncaughtException" exactly when that call failed; and
\* no uncaught exception is emitted when a Deferred was supplied or the work
\* succeeded.
C7_Case == env = LiveEnv /\ ~deferred.some /\ napi3 /\ (Panicked \/ Threw)

C7_EmitsOnce ==
    /\ Cardinality(CallsOf("fatal_exception")) <= 1
    /\ \A i \in CallsOf("fatal_exception") :
         C7_Case /\ ConstructedError(calls[i].value, Template)
    /\ C7_Case /\ Terminal /\ FailedCalls \subseteq CallsOf("fatal_exception") =>
         Cardinality(CallsOf("fatal_exception")) = 1
    /\ (Aborted /\ abortMsg = "Failed to throw an uncaughtException") <=>
         (\E i \in CallsOf("fatal_exception") : calls[i].status # "Ok")
    /\ C7_Case /\ done = "returned" => Emitted

C7_Witness ==
    /\ C7_Case /\ done = "returned" /\ Emitted

\* -------------------------------------------------------------------- C8
\* C8: with a null env the work is run exactly once, with None; a panic aborts
\* with the panic's message, or with "Unknown panic" when the payload is
\* neither &str nor String; when the work returns, catch_failure returns; and
\* no runtime call at all is made, so a Deferred is neither resolved nor
\* rejected.
C8_NullEnv ==
    env = NullEnv =>
      /\ calls = <<>> /\ heap = <<>> /\ externals = <<>>
      /\ fCalls <= 1
      /\ Terminal =>
           /\ fCalls = 1 /\ ~fEnv.some
           /\ IF Panicked
                THEN /\ Aborted
                     /\ abortMsg = IF StringPayload THEN f.result.err.data
                                   ELSE "Unknown panic"
                ELSE done = "returned"

C8_Witness ==
    /\ env = NullEnv /\ deferred.some /\ Aborted /\ fCalls = 1
    /\ ~StringPayload /\ abortMsg = "Unknown panic"

\* -------------------------------------------------------------------- C9
\* C9: every runtime call is checked: a call that returned a status other than
\* Ok is the last runtime call made, and the process has aborted with the
\* fixed diagnostic of that operation.
C9_FailedCallAborts ==
    \A i \in FailedCalls :
      /\ i = Len(calls)
      /\ Aborted
      /\ abortMsg = Diagnostic(calls[i].op)

C9_Witness ==
    /\ Aborted
    /\ \E i \in FailedCalls : calls[i].op = "create_external"

\* ------------------------------------------------------------------- C10
\* C10 as stated: catch_failure aborts only when no Deferred was supplied and
\* there is no feature napi-3, or when a runtime call failed.
C10_AbortsOnlyAsLastResort ==
    Aborted => (~deferred.some /\ ~napi3) \/ FailedCalls # {}

\* C10, amended: catch_failure aborts only when no Deferred was supplied and
\* there is no feature napi-3, or when a runtime call failed, or when env is
\* null and the work panicked; in every other case a panic or exception is
\* handled by rejecting the Deferred or emitting an uncaught exception.
C10_AbortsOnlyAsLastResortOrNullEnv ==
    /\ Aborted =>
         \/ ~deferred.some /\ ~napi3
         \/ FailedCalls # {}
         \/ env = NullEnv /\ Panicked
    /\ Terminal /\ ~Aborted /\ (Panicked \/ Threw) =>
         Cardinality(Outcomes \cap {"reject", "emit"}) = 1
    /\ Terminal /\ env = LiveEnv /\ deferred.some /\ FailedCalls = {} =>
         ~Aborted

C10_Witness ==
    /\ Aborted /\ env = NullEnv /\ Panicked /\ deferred.some /\ napi3

\* ------------------------------------------------------------------- C11
\* C11: every error object that catch_failure constructs and hands to
\* reject_deferred or fatal_exception has the caught exception as `cause`
\* exactly when the work left an exception pending, and has an error made from
\* the panic payload as `panic` exactly when the work panicked.
SettlingCalls == CallsOf("reject_deferred") \cup CallsOf("fatal_exception")

C11_CauseAndPanicAttached ==
    \A i \in SettlingCalls :
      calls[i].value.kind = "error" =>
        LET e == heap[calls[i].value.n] IN
          /\ e.props.cause.some <=> Threw
          /\ Threw => e.props.cause.val = f.throws.val
          /\ e.props.panic.some <=> Panicked
          /\ Panicked =>
               /\ e.props.panic.val.kind = "error"
               /\ e.props.panic.val.n \in DOMAIN heap \ {calls[i].value.n}
               /\ heap[e.props.panic.val.n].message \in
                    {f.result.err.data, UNKNOWN_PANIC_MESSAGE}

C11_Witness ==
    /\ done = "returned" /\ Threw /\ Panicked
    /\ \E i \in OkCallsOf("reject_deferred") :
         /\ calls[i].value.kind = "error"
         /\ heap[calls[i].value.n].props.cause = Some(f.throws.val)
         /\ heap[calls[i].value.n].props.panic.some

\* ------------------------------------------------------------------- C12
\* C12: control leaves catch_failure only by a return or by an abort, never
\* by unwinding; the work is invoked exactly once, and a panic of the work is
\* held as the Err of the catch_unwind result.
C12_NeverUnwinds ==
    /\ done \in {"running", "returned", "aborted"}
    /\ fCalls <= 1
    /\ Terminal => fCalls = 1
    /\ fCalls = 1 /\ Panicked => ~panic.ok /\ panic.err = f.result.err

C12_Witness ==
    /\ done = "returned" /\ Panicked /\ ~StringPayload /\ fCalls = 1
    /\ ~panic.ok

\* ------------------------------------------------------------------- C19
\* C19: the error made from a panic payload has the payload's message exactly
\* when the payload is a &str or a String, and then no external is created;
\* for any other payload the error has the message "Unknown panic" and its
\* `cause` is an external that owns the boxed payload. A boxed payload is
\* dropped only by the finalizer of its external, hence at most once and not
\* before the runtime collects the handle.
PanicErrors ==
    {heap[i].props.panic.val.n : i \in {j \in DOMAIN heap : heap[j].props.panic.some}}

C19_PanicPayload ==
    /\ \A n \in PanicErrors :
         IF f.result.err.type \in {"&str", "String"}
           THEN /\ heap[n].message = f.result.err.data
                /\ ~heap[n].props.cause.some
           ELSE /\ heap[n].message = "Unknown panic"
                /\ heap[n].props.cause.some
                /\ heap[n].props.cause.val.kind = "external"
                /\ heap[n].props.cause.val.n \in DOMAIN externals
                /\ externals[heap[n].props.cause.val.n] = f.result.err
    /\ \A i \in DOMAIN externals :
         externals[i] = f.result.err /\ Panicked /\ ~StringPayload
    /\ Len(externals) <= 1
    /\ collected \subseteq DOMAIN externals
    /\ payloadDrops <= 1
    /\ Panicked /\ ~StringPayload => payloadDrops = Cardinality(collected)
    /\ Aborted => collected = {}

C19_Witness ==
    /\ done = "returned" /\ Panicked /\ ~StringPayload
    /\ collected = {1} /\ payloadDrops = 1
    /\ \E n \in PanicErrors : heap[n].props.cause.val = Local("external", 1, "")

\* ------------------------------------------------------------------- C20
\* C20: with a live env the work has run, once, before the first runtime
\* call; the first call is the pending-exception check and there is no second
\* one; the exception is fetched at most once, right after the check; and
\* while the exception the work left is still pending no string, error,
\* external or property is created and nothing is resolved, rejected or
\* emitted.
ProbeOps == {"is_exception_pending", "get_and_clear_last_exception"}

C20_ProbeBeforeConstruction ==
    /\ calls # <<>> => fCalls = 1 /\ calls[1].op = "is_exception_pending"
    /\ CallsOf("is_exception_pending") \subseteq {1}
    /\ CallsOf("get_and_clear_last_exception") \subseteq {2}
    /\ pending.some => \A i \in DOMAIN calls : calls[i].op \in ProbeOps
    /\ env = LiveEnv /\ fCalls = 1 /\ Threw /\ ~pending.some =>
         /\ 2 \in OkCallsOf("get_and_clear_last_exception")
         /\ exception.some \/ At("catch_failure", "classify")

C20_Witness ==
    /\ Threw /\ Panicked /\ ~pending.some
    /\ CallsOf("create_string_utf8") # {}
    /\ 2 \in OkCallsOf("get_and_clear_last_exception")

\* --------------------------------------------------- channel observations
\* the task was invoked with a live handle
Ran(task) == phase[task] \in {"running", "completed"}
RunsOf(task) ==
    Cardinality({i \in DOMAIN invocations[task] : invocations[task][i].handle.some})
\* the closures that have been sent
SentClosures == {task \in Closures : task.seq <= sent[task.owner]}

\* ------------------------------------------------------------------- C13
\* C13: when one thread sends closure A and then closure B, A's entry is
\* ahead of B's in the task queue, and B is not invoked on the runtime thread
\* before A has run to completion, whatever the other threads send.
C13_PerThreadOrder ==
    \A a, b \in Closures :
      a.owner = b.owner /\ a.seq < b.seq =>
        /\ a \in Queued /\ b \in Queued => PositionOf(a) < PositionOf(b)
        /\ b \in Queued => phase[a] # "unsent"
        /\ Ran(b) => phase[a] = "completed"

C13_Witness ==
    /\ phase[Closure(1, 1)] = "completed"
    /\ phase[Closure(1, 2)] = "running"
    /\ phase[Closure(2, 1)] = "completed"
    /\ Closure(2, 2) \in Queued

C15_JoinState ==
    /\ \A task \in Closures :
         joined[task] # -1 =>
           phase[task] = "completed" /\ joined[task] = ClosureValue(task)
    /\ \A t \in Threads : joining[t] # 0 => sent[t] = joining[t]
    /\ loop = "alive" /\ running = {} /\ queue # <<>> => ENABLED Dequeue
    /\ running # {} => ENABLED Complete

C15_JoinWaitsForCompletion ==
    /\ []C15_JoinState
    /\ \A t \in Threads :
         (joining[t] # 0) ~> (joining[t] = 0 \/ loop = "exited")

C15_Witness ==
    /\ joined[Closure(1, 1)] = ClosureValue(Closure(1, 1))
    /\ joining[2] = 2
    /\ phase[Closure(2, 2)] = "queued"

\* ------------------------------------------------------------------- C16
\* C16: the finalize logic of a wrapped resource runs on the runtime thread
\* only, and at most once; dropped on the runtime thread it has run once;
\* dropped on a native thread its thunk is queued, and it has run once exactly
\* when the thunk has completed; while the runtime is alive the thunk is not
\* lost, and it eventually runs unless the event loop exits.
C16_FinalizeState ==
    \A r \in Resources :
      /\ res[r].finalized <= 1
      /\ res[r].on \subseteq {"runtime"}
      /\ res[r].dropped = "no" =>
           res[r].finalized = 0 /\ phase[Finalizer(r)] = "unsent"
      /\ res[r].dropped = "runtime" =>
           res[r].finalized = 1 /\ phase[Finalizer(r)] = "unsent"
      /\ res[r].dropped = "foreign" =>
           /\ res[r].finalized = 1 <=> phase[Finalizer(r)] = "completed"
           /\ loop = "alive" =>
                phase[Finalizer(r)] \in {"queued", "running", "completed"}

C16_FinalizedOnceOnRuntime ==
    /\ []C16_FinalizeState
    /\ \A r \in Resources :
         (res[r].dropped # "no") ~> (res[r].finalized = 1 \/ loop = "exited")

C16_Witness ==
    /\ res[1].dropped = "foreign"
    /\ res[1].finalized = 1
    /\ res[1].on = {"runtime"}
    /\ phase[Finalizer(1)] = "completed"

\* ------------------------------------------------------------------- C17
\* C17: the event loop exits only in a step in which no outstanding channel
\* handle, leaked ones included, is in the ref state, so that it has not
\* exited while a ref handle is outstanding; it can exit with an unref handle
\* and a queued task outstanding; and no step changes more than one handle.
C17_NoRefOutstanding ==
    \A c \in Clones : Outstanding(c) => chan[c].state = "unref"

C17_RefKeepsLoopAlive ==
    /\ [](loop = "exited" => C17_NoRefOutstanding)
    /\ [][/\ loop' # loop => C17_NoRefOutstanding
          /\ Cardinality({c \in Clones : chan'[c] # chan[c]}) <= 1]_vars

C17_Witness ==
    /\ loop = "exited"
    /\ chan[1] = [life |-> "leaked", state |-> "unref"]
    /\ chan[2] = [life |-> "held", state |-> "unref"]
    /\ queue # <<>>

\* ------------------------------------------------------------------- C18
\* C18: a thread that is not blocked can always send; while the runtime is
\* alive a sent closure is queued, executing or completed; a task invoked
\* after the event loop has exited is given no handle; no task is invoked
\* twice; a closure is discarded only once the runtime is gone and without
\* having run; and every sent closure is eventually completed or discarded.
C18_SendState ==
    /\ \A t \in Threads :
         joining[t] = 0 /\ sent[t] < SendsPerThread => ENABLED Send(t, FALSE)
    /\ loop = "alive" =>
         \A task \in SentClosures : phase[task] \in {"queued", "running", "completed"}
    /\ \A task \in Tasks :
         /\ Len(invocations[task]) <= 1
         /\ \A i \in DOMAIN invocations[task] :
              invocations[task][i].loop = "exited" => ~invocations[task][i].handle.some
         /\ phase[task] = "discarded" => loop = "exited" /\ RunsOf(task) = 0

C18_DeliveredOrDiscarded ==
    /\ []C18_SendState
    /\ \A task \in Closures :
         (phase[task] # "unsent") ~> (phase[task] \in {"completed", "discarded"})

C18_Witness ==
    /\ loop = "exited"
    /\ phase[Closure(1, 1)] = "completed"
    /\ phase[Closure(1, 2)] = "discarded"
    /\ invocations[Closure(1, 2)] = <<[handle |-> NoneEnv, loop |-> "exited"]>>
    /\ phase[Closure(2, 1)] = "discarded"
    /\ invocations[Closure(2, 1)] = <<>>

\* ------------------------------------------------------------------ Spec
Next ==
    \/ catch_failure
    \/ catch_failure_classify
    \/ catch_failure_settle
    \/ catch_failure_reject
    \/ catch_failure_emit
    \/ catch_failure_return
    \/ is_exception_pending
    \/ catch_exception
    \/ create_string
    \/ error_from_message
    \/ set_property
    \/ external_from_panic
    \/ error_from_panic_message
    \/ error_from_panic_unknown
    \/ error_from_panic_external
    \/ error_from_panic_done
    \/ create_error
    \/ create_error_panic
    \/ create_error_panic_error
    \/ create_error_done
    \/ resolve_deferred
    \/ reject_deferred
    \/ finalize_panic

Spec == Init /\ [][Next]_vars

\* native threads send closures, fire-and-forget, while the runtime thread
\* works through the task queue and may tear down
NextChannel ==
    \/ \E t \in Threads : Send(t, FALSE)
    \/ Dequeue
    \/ Complete
    \/ LoopExit
    \/ Discard

SpecChannel == InitChannel /\ [][NextChannel]_vars

\* the runtime thread keeps taking, running and, at teardown, discarding tasks
RuntimeFairness == WF_vars(Dequeue) /\ WF_vars(Complete) /\ WF_vars(Discard)

FairSpecChannel == SpecChannel /\ RuntimeFairness

\* native threads send closures and may wait on the join handle
NextJoin ==
    \/ \E t \in Threads : \E join \in BOOLEAN : Send(t, join)
    \/ \E t \in Threads : JoinReturn(t)
    \/ Dequeue
    \/ Complete
    \/ LoopExit
    \/ Discard

SpecJoin == InitChannel /\ [][NextJoin]_vars

\* a thread whose join can return is scheduled
FairSpecJoin ==
    /\ SpecJoin
    /\ RuntimeFairness
    /\ \A t \in Threads : WF_vars(JoinReturn(t))

\* wrapped resources are dropped on the runtime thread or on a native thread,
\* next to one sending thread
NextDrop ==
    \/ \E r \in Resources : DropOnRuntime(r)
    \/ \E r \in Resources : DropOnThread(r)
    \/ Send(1, FALSE)
    \/ Dequeue
    \/ Complete
    \/ LoopExit
    \/ Discard

SpecDrop == InitChannel /\ [][NextDrop]_vars

FairSpecDrop == SpecDrop /\ RuntimeFairness

\* the channel handles and the event loop, with one sending thread
NextRef ==
    \/ \E c \in Clones : Unref(c)
    \/ \E c \in Clones : Reference(c)
    \/ \E c \in Clones : DropChannel(c)
    \/ \E c \in Clones : LeakChannel(c)
    \/ Send(1, FALSE)
    \/ Dequeue
    \/ Complete
    \/ LoopExit
    \/ Discard

SpecRef == InitChannel /\ [][NextRef]_vars

====
